---------------------------- MODULE Spec2Model ----------------------------
(***************************************************************************)
(* A model of react-gantt-nl: calendar arithmetic (utils/date), the        *)
(* coordinate engine, hierarchy flattener and position compiler            *)
(* (utils/position.ts), the Gantt component's layout state                 *)
(* (components/Gantt.tsx) and the drag controller (hooks/useDrag.ts).      *)
(*                                                                         *)
(* Numbers.  An instant is Date.getTime(): a whole number of clock ticks   *)
(* after the epoch.  The model's clock has MS_PER_DAY ticks per day (the   *)
(* code's has 86400000); local days all have that length (no DST change)   *)
(* and local midnight falls on multiples of MS_PER_DAY.                    *)
(* Instants are counted from a local midnight after the epoch, so an      *)
(* instant before that midnight is negative.                               *)
(* A pixel quantity is a rational number.  Every pixel quantity the code   *)
(* computes under a date range r is a multiple of 1 / |totalMs(r)|, so it  *)
(* is stored as its numerator over |totalMs(r)|: the stored value of x     *)
(* pixels is x * |totalMs(r)| ("scaled pixels"), which keeps the order of  *)
(* pixel quantities.  chartWidth, clientX and column widths are whole      *)
(* pixels and are stored unscaled.  The arithmetic is exact: the rounding  *)
(* of IEEE doubles is not modelled, the truncation of new Date(number) to  *)
(* whole ticks is.                                                         *)
(***************************************************************************)
EXTENDS Integers, Sequences, FiniteSets, TLC

VARIABLES
    tasks,            \* Gantt prop: the caller's task list
    padding,          \* config.datePadding
    viewMode,         \* config.viewMode
    allowDrag,        \* config.allowDrag
    allowResize,      \* config.allowResize
    rowHeight,        \* config.rowHeight
    dependencies,     \* Gantt prop: the caller's dependency links
    collapsedIds,     \* Gantt useState: the collapsed-id set
    dateRange,        \* Gantt useMemo: calculateDateRange(...)
    chartWidth,       \* Gantt useMemo: calculateChartWidth(...)
    computedTasks,    \* Gantt useMemo: computeTaskPositions(...)
    groupToggle,      \* the latest onGroupToggle call: <<>> or
                      \* <<[taskId, isExpanded]>>
    isDragging,       \* useDrag useState
    previewStart,     \* useDrag useState (<<>> is null)
    previewEnd,       \* useDrag useState (<<>> is null)
    dragState,        \* useDrag useRef (<<>> is null)
    previewStartRef,  \* useDrag useRef
    previewEndRef,    \* useDrag useRef
    listening,        \* the document listeners of useDrag's effect are
                      \* installed
    startReport,      \* the onDragStart call of the latest session: <<>>
                      \* or <<[taskId]>>
    moveReport,       \* the latest onDragMove call of the session: <<>> or
                      \* <<[taskId, newStart, newEnd, clientX]>>
    endReport,        \* the onDragEnd call of the latest session: <<>> or
                      \* <<[taskId, newStart, newEnd, cancelled, isResize]>>
    dateChange,       \* the host's onTaskDateChange event of the latest
                      \* session: <<>> or <<[taskId, newStart, newEnd, isResize]>>
    conv,             \* a chain of dateToX / xToDate applications
    lastStep          \* the latest step taken around the drag controller:
                      \* the DOM event delivered or the effect run

vars == <<tasks, padding, viewMode, allowDrag, allowResize, rowHeight,
          dependencies, collapsedIds, dateRange, chartWidth, computedTasks,
          groupToggle, isDragging, previewStart, previewEnd, dragState,
          previewStartRef, previewEndRef, listening, startReport,
          moveReport, endReport, dateChange, conv, lastStep>>

propVars == <<tasks, padding, viewMode, allowDrag, allowResize, rowHeight,
              dependencies>>
\* the props but the task list
configVars == <<padding, viewMode, allowDrag, allowResize, rowHeight,
                dependencies>>
layoutVars == <<collapsedIds, dateRange, chartWidth, computedTasks,
                groupToggle>>
dragVars == <<isDragging, previewStart, previewEnd, dragState,
              previewStartRef, previewEndRef, listening, startReport,
              moveReport, endReport, dateChange>>
\* everything but the record of the latest step
appVars == <<propVars, layoutVars, dragVars, conv>>

--------------------------------------------------------------------------
(* Bounds of the model *)

\* clock ticks per day of the model's clock
MS_PER_DAY == 2
\* task lists of the hierarchy family have up to MaxTasks tasks
MaxTasks == 3
\* dates of the date family lie in 0 .. MaxDateInstant
MaxDateInstant == 3
\* config.datePadding lies in 0 .. MaxPadding
MaxPadding == 1
\* dates of a dragged task lie in 0 .. MaxDragInstant
MaxDragInstant == 3
\* clientX of a pointer event is k * PxStep, k in 0 .. MaxPxSteps
PxStep == 20
MaxPxSteps == 3
\* ranges of a conversion chain lie in 0 .. MaxConvInstant, widths in 1 .. MaxConvWidth
MaxConvInstant == 4
MaxConvWidth == 5

ViewModes == {"day", "week", "month"}

\* an optional value: <<>> (undefined / null) or <<v>>
Opt(S) == {<<>>} \cup {<<v>> : v \in S}
Some(o) == o # <<>>
Val(o) == o[1]

Min(a, b) == IF a <= b THEN a ELSE b
Max(a, b) == IF a >= b THEN a ELSE b
Abs(a) == IF a >= 0 THEN a ELSE -a
Sgn(a) == IF a > 0 THEN 1 ELSE IF a < 0 THEN -1 ELSE 0
\* Math.ceil(n / d) for d > 0
Ceil(n, d) == -((-n) \div d)

--------------------------------------------------------------------------
(* utils/date *)

\* setHours(0, 0, 0, 0)
startOfDay(date) == date - (date % MS_PER_DAY)

\* startOfDay setting the hours on the Date object it is given
startOfDayInPlace(date) == startOfDay(date)

\* the Date object passed to startOfDay, after the call: startOfDay sets
\* the hours on a copy (new Date(date)), the argument keeps its instant
startOfDayArgument(date) == date

\* setHours(23, 59, 59, 999): the last tick of the day
endOfDay(date) == startOfDay(date) + MS_PER_DAY - 1

\* (end - start) / MS_PER_DAY, as its numerator over MS_PER_DAY
diffInDays(start, end) == end - start

\* setDate(getDate() + days), days given as its numerator over MS_PER_DAY.
\* setDate keeps the integer part of getDate() + days (here: while that sum
\* is not negative, which holds for every days >= 0).
addDays(date, daysNum) == date + (daysNum \div MS_PER_DAY) * MS_PER_DAY

\* the Date object passed to addDays, after the call: addDays sets the
\* day of the month on a copy (new Date(date))
addDaysArgument(date, daysNum) == date

\* a whole number of days, as a numerator over MS_PER_DAY
Days(n) == n * MS_PER_DAY

getColumnWidth(mode) ==
    CASE mode = "day" -> 40
      [] mode = "week" -> 120
      [] mode = "month" -> 180
      [] OTHER -> 40

RECURSIVE minStart(_, _, _)
\* minStart with the baseline check left out
minStartCurrentOnly(ts, i, minDate) ==
    IF i > Len(ts) THEN minDate
    ELSE minStart(ts, i + 1,
                  IF ts[i].start < minDate THEN ts[i].start ELSE minDate)

\* the forEach of calculateDateRange, for minDate
minStart(ts, i, minDate) ==
    IF i > Len(ts) THEN minDate
    ELSE LET t == ts[i]
             m1 == IF t.start < minDate THEN t.start ELSE minDate
             m2 == IF Some(t.baselineStart) /\ Val(t.baselineStart) < m1
                   THEN Val(t.baselineStart) ELSE m1
         IN minStart(ts, i + 1, m2)

RECURSIVE maxEnd(_, _, _)
\* maxEnd with the baseline check left out
maxEndCurrentOnly(ts, i, maxDate) ==
    IF i > Len(ts) THEN maxDate
    ELSE maxEnd(ts, i + 1,
                IF ts[i].end > maxDate THEN ts[i].end ELSE maxDate)

\* the forEach of calculateDateRange, for maxDate
maxEnd(ts, i, maxDate) ==
    IF i > Len(ts) THEN maxDate
    ELSE LET t == ts[i]
             m1 == IF t.end > maxDate THEN t.end ELSE maxDate
             m2 == IF Some(t.baselineEnd) /\ Val(t.baselineEnd) > m1
                   THEN Val(t.baselineEnd) ELSE m1
         IN maxEnd(ts, i + 1, m2)

\* calculateDateRange for a non-empty task list; customRange is <<>> or
\* <<[start |-> s, end |-> e]>>
calculateDateRange(ts, pad, customRange) ==
    IF Some(customRange)
    THEN LET start == startOfDay(Val(customRange).start)
             end == endOfDay(Val(customRange).end)
         IN [start |-> start, end |-> end,
             totalDays |-> Ceil(diffInDays(start, end), MS_PER_DAY)]
    ELSE LET minDate == minStart(ts, 1, ts[1].start)
             maxDate == maxEnd(ts, 1, ts[1].end)
             start == startOfDay(addDays(minDate, Days(-pad)))
             end == endOfDay(addDays(maxDate, Days(pad)))
         IN [start |-> start, end |-> end,
             totalDays |-> Ceil(diffInDays(start, end), MS_PER_DAY)]

--------------------------------------------------------------------------
(* utils/position.ts: the coordinate engine *)

calculateChartWidth(range, mode) ==
    LET columnWidth == getColumnWidth(mode)
    IN CASE mode = "day" -> range.totalDays * columnWidth
         [] mode = "week" -> Ceil(range.totalDays, 7) * columnWidth
         [] mode = "month" -> Ceil(range.totalDays, 30) * columnWidth
         [] OTHER -> range.totalDays * columnWidth

totalMs(range) == range.end - range.start

\* (dateMs / totalMs) * chartWidth, in scaled pixels
dateToX(date, range, width) ==
    (date - range.start) * width * Sgn(totalMs(range))

\* xToDate rounding to the nearest tick
xToDateRounded(x, range, width) ==
    range.start + ((2 * x * Sgn(totalMs(range)) + width) \div (2 * width))

\* new Date(range.start.getTime() + (x / chartWidth) * totalMs), x in scaled
\* pixels and chartWidth > 0: the Date constructor drops the fraction of a
\* tick of its argument, a positive number of ticks since the epoch
xToDate(x, range, width) ==
    range.start + ((x * Sgn(totalMs(range))) \div width)

\* Math.max(endX - startX, minWidth) with the default minWidth = 4, in
\* scaled pixels
calculateBarWidth(start, end, range, width) ==
    LET startX == dateToX(start, range, width)
        endX == dateToX(end, range, width)
    IN Max(endX - startX, 4 * Abs(totalMs(range)))

\* snapToGrid taking the start of the week in week view
snapToGridByColumn(x, range, width, mode) ==
    LET date == xToDate(x, range, width)
        snappedDate == IF mode = "week"
                       THEN date - (date % (7 * MS_PER_DAY))
                       ELSE startOfDay(date)
    IN dateToX(snappedDate, range, width)

\* every view mode snaps to the start of the day
snapToGrid(x, range, width, mode) ==
    LET date == xToDate(x, range, width)
        snappedDate == startOfDay(date)
    IN dateToX(snappedDate, range, width)

--------------------------------------------------------------------------
(* utils/position.ts: the hierarchy flattener and the position compiler *)

\* taskMap.has(id)
taskMapHas(ts, id) == \E i \in 1..Len(ts) : ts[i].id = id

\* tasks.filter(pred), as the increasing sequence of the indices kept;
\* keep[j] is pred(tasks[j])
RECURSIVE filterIdx(_, _, _)
filterIdx(ts, keep, i) ==
    IF i > Len(ts) THEN <<>>
    ELSE (IF keep[i] THEN <<i>> ELSE <<>>) \o filterIdx(ts, keep, i + 1)

\* !t.parentId || !taskMap.has(t.parentId)
isRoot(ts, t) == t.parentId = "" \/ ~taskMapHas(ts, t.parentId)

RECURSIVE addTask(_, _, _, _, _)
RECURSIVE addTasks(_, _, _, _, _)
\* addTask passing down only the task's own collapsed state
addTaskParentOnly(ts, collapsed, i, level, parentVisible) ==
    LET task == ts[i]
        isChild == [j \in 1..Len(ts) |-> ts[j].parentId = task.id]
    IN <<[task |-> task, level |-> level, isVisible |-> parentVisible]>>
       \o addTasks(ts, collapsed, filterIdx(ts, isChild, 1), level + 1,
                   task.id \notin collapsed)

\* addTask hiding a collapsed task itself
addTaskHidesSelf(ts, collapsed, i, level, parentVisible) ==
    LET task == ts[i]
        isVisible == parentVisible /\ task.id \notin collapsed
        isChild == [j \in 1..Len(ts) |-> ts[j].parentId = task.id]
    IN <<[task |-> task, level |-> level, isVisible |-> isVisible]>>
       \o addTasks(ts, collapsed, filterIdx(ts, isChild, 1), level + 1,
                   isVisible)

\* addTasks leaving out the tasks under a hidden or collapsed parent
addTasksVisibleOnly(ts, collapsed, idxs, level, parentVisible) ==
    IF idxs = <<>> \/ ~parentVisible THEN <<>>
    ELSE addTask(ts, collapsed, Head(idxs), level, parentVisible)
         \o addTasks(ts, collapsed, Tail(idxs), level, parentVisible)

\* addTasks walking the list from its end
addTasksReversed(ts, collapsed, idxs, level, parentVisible) ==
    IF idxs = <<>> THEN <<>>
    ELSE addTasks(ts, collapsed, Tail(idxs), level, parentVisible)
         \o addTask(ts, collapsed, Head(idxs), level, parentVisible)

\* addTask pushes the entry, then adds each child in list order
addTask(ts, collapsed, i, level, parentVisible) ==
    LET task == ts[i]
        isCollapsed == task.id \in collapsed
        isVisible == parentVisible
        isChild == [j \in 1..Len(ts) |-> ts[j].parentId = task.id]
        children == filterIdx(ts, isChild, 1)
    IN <<[task |-> task, level |-> level, isVisible |-> isVisible]>>
       \o addTasks(ts, collapsed, children, level + 1, isVisible /\ ~isCollapsed)

\* list.forEach((t) => addTask(t, level, parentVisible))
addTasks(ts, collapsed, idxs, level, parentVisible) ==
    IF idxs = <<>> THEN <<>>
    ELSE addTask(ts, collapsed, Head(idxs), level, parentVisible)
         \o addTasks(ts, collapsed, Tail(idxs), level, parentVisible)

flattenTasks(ts, collapsed) ==
    LET root == [j \in 1..Len(ts) |-> isRoot(ts, ts[j])]
        rootTasks == filterIdx(ts, root, 1)
    IN addTasks(ts, collapsed, rootTasks, 0, TRUE)

\* baselineOf with a baseline width of its own: no minimum width
baselineOfOwnWidth(task, range, width) ==
    IF Some(task.baselineStart) /\ Some(task.baselineEnd)
    THEN [baselineX |-> <<dateToX(Val(task.baselineStart), range, width)>>,
          baselineWidth |->
              <<dateToX(Val(task.baselineEnd), range, width)
                - dateToX(Val(task.baselineStart), range, width)>>]
    ELSE [baselineX |-> <<>>, baselineWidth |-> <<>>]

\* baselineX and baselineWidth of a task: defined when both baseline
\* dates are
baselineOf(task, range, width) ==
    IF Some(task.baselineStart) /\ Some(task.baselineEnd)
    THEN [baselineX |-> <<dateToX(Val(task.baselineStart), range, width)>>,
          baselineWidth |->
              <<calculateBarWidth(Val(task.baselineStart),
                                  Val(task.baselineEnd), range, width)>>]
    ELSE [baselineX |-> <<>>, baselineWidth |-> <<>>]

\* the computed entry of one flattened entry, given the row counter
computeEntry(e, range, width, collapsed, visibleRowIndex) ==
    LET task == e.task
    IN [id |-> task.id, parentId |-> task.parentId, type |-> task.type,
        isDisabled |-> task.isDisabled,
        start |-> task.start, end |-> task.end,
        baselineStart |-> task.baselineStart,
        baselineEnd |-> task.baselineEnd,
        x |-> dateToX(task.start, range, width),
        width |-> calculateBarWidth(task.start, task.end, range, width),
        rowIndex |-> IF e.isVisible THEN visibleRowIndex ELSE -1,
        baselineX |-> baselineOf(task, range, width).baselineX,
        baselineWidth |-> baselineOf(task, range, width).baselineWidth,
        level |-> e.level,
        isCollapsed |-> task.id \in collapsed,
        isVisible |-> e.isVisible]

RECURSIVE mapEntries(_, _, _, _, _, _)
\* mapEntries counting every entry as a row
mapEntriesCountAll(flat, i, range, width, collapsed, visibleRowIndex) ==
    IF i > Len(flat) THEN <<>>
    ELSE <<computeEntry(flat[i], range, width, collapsed, visibleRowIndex)>>
         \o mapEntries(flat, i + 1, range, width, collapsed,
                       visibleRowIndex + 1)

\* flatTasks.map(...) with its visibleRowIndex counter
mapEntries(flat, i, range, width, collapsed, visibleRowIndex) ==
    IF i > Len(flat) THEN <<>>
    ELSE <<computeEntry(flat[i], range, width, collapsed, visibleRowIndex)>>
         \o mapEntries(flat, i + 1, range, width, collapsed,
                       IF flat[i].isVisible THEN visibleRowIndex + 1
                       ELSE visibleRowIndex)

computeTaskPositions(ts, range, width, collapsed) ==
    mapEntries(flattenTasks(ts, collapsed), 1, range, width, collapsed, 0)

--------------------------------------------------------------------------
(* components/Gantt.tsx: the layout state of the component *)

\* the three layout useMemo values, recomputed when an input changes
layoutOf(ts, pad, mode, collapsed) ==
    LET range == calculateDateRange(ts, pad, <<>>)
        width == calculateChartWidth(range, mode)
    IN [dateRange |-> range, chartWidth |-> width,
        computedTasks |-> computeTaskPositions(ts, range, width, collapsed)]

\* useDrag before any session
dragIdle ==
    /\ isDragging = FALSE
    /\ previewStart = <<>>
    /\ previewEnd = <<>>
    /\ dragState = <<>>
    /\ previewStartRef = <<>>
    /\ previewEndRef = <<>>
    /\ listening = FALSE
    /\ startReport = <<>>
    /\ moveReport = <<>>
    /\ endReport = <<>>
    /\ dateChange = <<>>

\* defaultConfig.rowHeight
defaultRowHeight == 40

\* the component right after its first render with the given props
mountedWith(ts, pad, mode, drag, resize, deps, rh) ==
    /\ tasks = ts
    /\ padding = pad
    /\ viewMode = mode
    /\ allowDrag = drag
    /\ allowResize = resize
    /\ rowHeight = rh
    /\ dependencies = deps
    /\ collapsedIds = {}
    /\ groupToggle = <<>>
    /\ lastStep = <<"mount">>
    /\ dateRange = layoutOf(ts, pad, mode, {}).dateRange
    /\ chartWidth = layoutOf(ts, pad, mode, {}).chartWidth
    /\ computedTasks = layoutOf(ts, pad, mode, {}).computedTasks
    /\ dragIdle

\* a chart without dependency links, at the default row height
mounted(ts, pad, mode, drag, resize) ==
    mountedWith(ts, pad, mode, drag, resize, <<>>, defaultRowHeight)

\* setCollapsedIds toggles taskId; the render that follows recomputes
\* computedTasks (dateRange and chartWidth do not depend on the set);
\* onGroupToggle is called with the set of the render the callback was
\* made in, the one before the toggle
handleGroupToggle(taskId) ==
    /\ collapsedIds' = IF taskId \in collapsedIds
                       THEN collapsedIds \ {taskId}
                       ELSE collapsedIds \cup {taskId}
    /\ computedTasks' = computeTaskPositions(tasks, dateRange, chartWidth,
                                             collapsedIds')
    /\ groupToggle' = <<[taskId |-> taskId,
                         isExpanded |-> ~(taskId \in collapsedIds)]>>
    /\ UNCHANGED <<propVars, dateRange, chartWidth, dragVars, conv,
                   lastStep>>

--------------------------------------------------------------------------
(* hooks/useDrag.ts: the drag controller, and the handlers that lead to it *)

DragModes == {"move", "resize-left", "resize-right"}
isResizeMode(mode) == mode = "resize-left" \/ mode = "resize-right"

\* a whole number of pixels, in scaled pixels
px(n, range) == n * Abs(totalMs(range))

\* newStart and newEnd of handleMouseMove before they are normalised;
\* state.startTaskX and state.startTaskWidth are scaled under the range
\* of the pointer-down, which the model keeps for the whole session
candidateDates(state, clientX, range, width, mode) ==
    LET deltaX == px(clientX - state.startX, range)
    IN CASE state.mode = "move" ->
              LET newX == state.startTaskX + deltaX
                  snappedX == snapToGrid(newX, range, width, mode)
                  newStart == xToDate(snappedX, range, width)
                  duration == diffInDays(state.originalStart,
                                         state.originalEnd)
              IN [newStart |-> newStart,
                  newEnd |-> addDays(newStart, duration)]
         [] state.mode = "resize-left" ->
              LET newX == state.startTaskX + deltaX
                  snappedX == snapToGrid(newX, range, width, mode)
                  newStart == xToDate(snappedX, range, width)
                  newEnd == state.originalEnd
              IN [newStart |-> IF newStart >= newEnd
                               THEN addDays(newEnd, Days(-1))
                               ELSE newStart,
                  newEnd |-> newEnd]
         [] state.mode = "resize-right" ->
              LET newWidth == state.startTaskWidth + deltaX
                  newEndX == state.startTaskX + newWidth
                  snappedEndX == snapToGrid(newEndX, range, width, mode)
                  newStart == state.originalStart
                  newEnd == xToDate(snappedEndX, range, width)
              IN [newStart |-> newStart,
                  newEnd |-> IF newEnd <= newStart
                             THEN addDays(newStart, Days(1))
                             ELSE newEnd]

\* the instants of the two Date objects the session holds as originalStart
\* and originalEnd, after handleMouseMove: they are the caller's task.start
\* and task.end objects (handleMouseDown stores the references, and the
\* computed task shares them with the caller's task), and the resize modes
\* pass one of them to addDays (when the candidate is clamped) and to
\* startOfDay
heldDatesAfterMove(state, clientX, range, width, mode) ==
    LET deltaX == px(clientX - state.startX, range)
    IN CASE state.mode = "move" ->
              [start |-> state.originalStart, end |-> state.originalEnd]
         [] state.mode = "resize-left" ->
              LET newX == state.startTaskX + deltaX
                  snappedX == snapToGrid(newX, range, width, mode)
                  newStart == xToDate(snappedX, range, width)
                  newEnd == state.originalEnd
                  afterClamp == IF newStart >= newEnd
                                THEN addDaysArgument(newEnd, Days(-1))
                                ELSE newEnd
              IN [start |-> state.originalStart,
                  end |-> startOfDayArgument(afterClamp)]
         [] state.mode = "resize-right" ->
              LET newWidth == state.startTaskWidth + deltaX
                  newEndX == state.startTaskX + newWidth
                  snappedEndX == snapToGrid(newEndX, range, width, mode)
                  newStart == state.originalStart
                  newEnd == xToDate(snappedEndX, range, width)
                  afterClamp == IF newEnd <= newStart
                                THEN addDaysArgument(newStart, Days(1))
                                ELSE newStart
              IN [start |-> startOfDayArgument(afterClamp),
                  end |-> state.originalEnd]

\* the caller's list after handleMouseMove: the task of the session with
\* the instants its two Date objects now have
tasksAfterMove(state, held) ==
    [i \in 1..Len(tasks) |->
        IF tasks[i].id = state.task.id
        THEN [tasks[i] EXCEPT !.start = held.start, !.end = held.end]
        ELSE tasks[i]]

\* handleMouseDown without the allowResize check
handleMouseDownAnyResize(task, clientX, mode) ==
    IF \/ task.isDisabled
       \/ (mode = "move" /\ ~allowDrag)
    THEN UNCHANGED appVars
    ELSE /\ dragState' = <<[task |-> task, mode |-> mode, startX |-> clientX,
                            startTaskX |-> task.x,
                            startTaskWidth |-> task.width,
                            originalStart |-> task.start,
                            originalEnd |-> task.end]>>
         /\ previewStartRef' = <<task.start>>
         /\ previewEndRef' = <<task.end>>
         /\ isDragging' = TRUE
         /\ previewStart' = <<task.start>>
         /\ previewEnd' = <<task.end>>
         /\ startReport' = <<[taskId |-> task.id]>>
         /\ moveReport' = <<>>
         /\ endReport' = <<>>
         /\ dateChange' = <<>>
         /\ UNCHANGED <<propVars, layoutVars, listening, conv>>

\* useDrag's handleMouseDown; the reports of an earlier session are
\* forgotten when a session starts
handleMouseDown(task, clientX, mode) ==
    IF \/ task.isDisabled
       \/ (mode = "move" /\ ~allowDrag)
       \/ (isResizeMode(mode) /\ ~allowResize)
    THEN UNCHANGED appVars
    ELSE /\ dragState' = <<[task |-> task, mode |-> mode, startX |-> clientX,
                            startTaskX |-> task.x,
                            startTaskWidth |-> task.width,
                            originalStart |-> task.start,
                            originalEnd |-> task.end]>>
         /\ previewStartRef' = <<task.start>>
         /\ previewEndRef' = <<task.end>>
         /\ isDragging' = TRUE
         /\ previewStart' = <<task.start>>
         /\ previewEnd' = <<task.end>>
         /\ startReport' = <<[taskId |-> task.id]>>
         /\ moveReport' = <<>>
         /\ endReport' = <<>>
         /\ dateChange' = <<>>
         /\ UNCHANGED <<propVars, layoutVars, listening, conv>>

\* a pointer-down on the bar of the i-th computed task (mode "move") or on
\* one of its resize handles: GanttTaskBar's handleDragStart, then
\* Gantt's handleTaskDragStart, then useDrag's handleMouseDown.  Only a
\* visible bar is rendered; the bars of milestones and groups have no
\* pointer-down handler and a disabled bar has no resize handles.
handleTaskDragStart(i, clientX, mode) ==
    LET task == computedTasks[i]
    IN /\ task.isVisible
       /\ isResizeMode(mode) => ~task.isDisabled
       /\ IF \/ task.type # "task"
             \/ task.isDisabled
             \/ task.type = "group"
          THEN UNCHANGED appVars
          ELSE handleMouseDown(task, clientX, mode)

\* handleMouseMove without the normalisation to the start of the day
handleMouseMoveRaw(clientX) ==
    IF dragState = <<>>
       THEN UNCHANGED appVars
       ELSE LET state == Val(dragState)
                c == candidateDates(state, clientX, dateRange, chartWidth,
                                    viewMode)
            IN /\ previewStartRef' = <<c.newStart>>
               /\ previewEndRef' = <<c.newEnd>>
               /\ previewStart' = <<c.newStart>>
               /\ previewEnd' = <<c.newEnd>>
               /\ moveReport' = <<[taskId |-> state.task.id,
                                   newStart |-> c.newStart,
                                   newEnd |-> c.newEnd,
                                   clientX |-> clientX]>>
               /\ UNCHANGED <<propVars, layoutVars, isDragging, dragState,
                              listening, startReport, endReport,
                              dateChange, conv>>

\* the document mousemove listener
handleMouseMove(clientX) ==
    IF dragState = <<>>
       THEN UNCHANGED appVars
       ELSE LET state == Val(dragState)
                c == candidateDates(state, clientX, dateRange, chartWidth,
                                    viewMode)
                newStart == startOfDay(c.newStart)
                newEnd == startOfDay(c.newEnd)
                held == heldDatesAfterMove(state, clientX, dateRange,
                                           chartWidth, viewMode)
            IN /\ previewStartRef' = <<newStart>>
               /\ previewEndRef' = <<newEnd>>
               /\ previewStart' = <<newStart>>
               /\ previewEnd' = <<newEnd>>
               /\ moveReport' = <<[taskId |-> state.task.id,
                                   newStart |-> newStart, newEnd |-> newEnd,
                                   clientX |-> clientX]>>
               /\ tasks' = tasksAfterMove(state, held)
               /\ UNCHANGED <<configVars, layoutVars, isDragging, dragState,
                              listening, startReport, endReport,
                              dateChange, conv>>

\* onDragEnd forwarding every end report to the host
onDragEndForwardsAll(taskId, newStart, newEnd, cancelled, isResize) ==
    /\ endReport' = <<[taskId |-> taskId, newStart |-> newStart,
                       newEnd |-> newEnd, cancelled |-> cancelled,
                       isResize |-> isResize]>>
    /\ dateChange' = <<[taskId |-> taskId, newStart |-> newStart,
                        newEnd |-> newEnd, isResize |-> isResize]>>

\* Gantt's onDragEnd: the host hears of a gesture that was not cancelled
onDragEnd(taskId, newStart, newEnd, cancelled, isResize) ==
    /\ endReport' = <<[taskId |-> taskId, newStart |-> newStart,
                       newEnd |-> newEnd, cancelled |-> cancelled,
                       isResize |-> isResize]>>
    /\ dateChange' = IF ~cancelled
                     THEN <<[taskId |-> taskId, newStart |-> newStart,
                             newEnd |-> newEnd, isResize |-> isResize]>>
                     ELSE dateChange

\* handleMouseUp reading the preview as it was when the listeners were
\* installed: the dates written by the pointer-down
handleMouseUpSnapshot ==
    IF dragState = <<>>
       THEN UNCHANGED appVars
       ELSE LET state == Val(dragState)
                currentPreviewStart == <<state.originalStart>>
                currentPreviewEnd == <<state.originalEnd>>
                moved ==
                    \/ Val(previewStartRef) # state.originalStart
                    \/ Val(previewEndRef) # state.originalEnd
            IN /\ isDragging' = FALSE
               /\ onDragEnd(state.task.id, Val(currentPreviewStart),
                            Val(currentPreviewEnd), ~moved,
                            isResizeMode(state.mode))
               /\ previewStartRef' = <<>>
               /\ previewEndRef' = <<>>
               /\ previewStart' = <<>>
               /\ previewEnd' = <<>>
               /\ dragState' = <<>>
               /\ UNCHANGED <<propVars, layoutVars, listening, startReport,
                              moveReport, conv>>

\* the document mouseup listener
handleMouseUp ==
    IF dragState = <<>>
       THEN UNCHANGED appVars
       ELSE LET state == Val(dragState)
                currentPreviewStart == previewStartRef
                currentPreviewEnd == previewEndRef
                moved ==
                    /\ Some(currentPreviewStart)
                    /\ Some(currentPreviewEnd)
                    /\ \/ Val(currentPreviewStart) # state.originalStart
                       \/ Val(currentPreviewEnd) # state.originalEnd
            IN /\ isDragging' = FALSE
               /\ onDragEnd(state.task.id,
                            IF Some(currentPreviewStart)
                            THEN Val(currentPreviewStart)
                            ELSE state.originalStart,
                            IF Some(currentPreviewEnd)
                            THEN Val(currentPreviewEnd)
                            ELSE state.originalEnd,
                            ~moved, isResizeMode(state.mode))
               /\ previewStartRef' = <<>>
               /\ previewEndRef' = <<>>
               /\ previewStart' = <<>>
               /\ previewEnd' = <<>>
               /\ dragState' = <<>>
               /\ UNCHANGED <<propVars, layoutVars, listening, startReport,
                              moveReport, conv>>

Keys == {"Escape", "Enter"}

\* handleKeyDown reporting the preview of the session
handleKeyDownReportsPreview(key) ==
    IF key # "Escape" \/ dragState = <<>>
       THEN UNCHANGED appVars
       ELSE LET state == Val(dragState)
            IN /\ isDragging' = FALSE
               /\ previewStartRef' = <<>>
               /\ previewEndRef' = <<>>
               /\ previewStart' = <<>>
               /\ previewEnd' = <<>>
               /\ onDragEnd(state.task.id, Val(previewStartRef),
                            Val(previewEndRef), TRUE,
                            isResizeMode(state.mode))
               /\ dragState' = <<>>
               /\ UNCHANGED <<propVars, layoutVars, listening, startReport,
                              moveReport, conv>>

\* handleKeyDown leaving the previews as they are
handleKeyDownKeepsPreview(key) ==
    IF key # "Escape" \/ dragState = <<>>
       THEN UNCHANGED appVars
       ELSE LET state == Val(dragState)
            IN /\ isDragging' = FALSE
               /\ onDragEnd(state.task.id, state.originalStart,
                            state.originalEnd, TRUE,
                            isResizeMode(state.mode))
               /\ dragState' = <<>>
               /\ UNCHANGED <<propVars, layoutVars, listening, startReport,
                              moveReport, conv, previewStart, previewEnd,
                              previewStartRef, previewEndRef>>

\* the document keydown listener
handleKeyDown(key) ==
    IF key # "Escape" \/ dragState = <<>>
       THEN UNCHANGED appVars
       ELSE LET state == Val(dragState)
            IN /\ isDragging' = FALSE
               /\ previewStartRef' = <<>>
               /\ previewEndRef' = <<>>
               /\ previewStart' = <<>>
               /\ previewEnd' = <<>>
               /\ onDragEnd(state.task.id, state.originalStart,
                            state.originalEnd, TRUE,
                            isResizeMode(state.mode))
               /\ dragState' = <<>>
               /\ UNCHANGED <<propVars, layoutVars, listening, startReport,
                              moveReport, conv>>

--------------------------------------------------------------------------
(* components/GanttDependencies.tsx: the connectors of dependency links *)
(*                                                                         *)
(* A path is the sequence of its points [x, y].  The x of a point is in    *)
(* half scaled pixels (twice the scaled value, so that the midpoint of two *)
(* positions is whole); its y is a multiple of 1 / YScale pixels and is    *)
(* stored as its numerator over YScale.                                    *)

\* the y of every bar is a multiple of 1/40 pixel for a whole row height:
\* 0.45 is 9/20 and the bar is centred by halving
YScale == 2 * 20

DependencyTypes ==
    {"finish-to-start", "start-to-start", "finish-to-finish",
     "start-to-finish"}

\* Gantt's visibleTasks
visibleTasks(computed) == SelectSeq(computed, LAMBDA t : t.isVisible)

\* Gantt's internalDependencies: a link without a type ("") is
\* finish-to-start
internalDependencies(deps) ==
    [k \in 1..Len(deps) |->
        [deps[k] EXCEPT !.type = IF @ = "" THEN "finish-to-start" ELSE @]]

\* taskMap.get(id) on new Map(tasks.map((t) => [t.id, t])): <<>> when the
\* id is missing, else the last task of that id
taskMapGet(ts, id) ==
    LET hits == {i \in 1..Len(ts) : ts[i].id = id}
    IN IF hits = {} THEN <<>>
       ELSE <<ts[CHOOSE i \in hits : \A j \in hits : j <= i]>>

\* getTaskBarY, with barHeight and the result over YScale
getTaskBarY(rowIndex, rh, barHeight) ==
    LET centerY == rowIndex * rh * YScale + (rh * YScale - barHeight) \div 2
    IN centerY - 4 * YScale

\* getBarDimensions(...).taskBar, over YScale
getBarDimensions(rowIndex, rh) ==
    LET taskBarHeight == Min(((9 * YScale) \div 20) * rh, 20 * YScale)
    IN [height |-> taskBarHeight,
        y |-> getTaskBarY(rowIndex, rh, taskBarHeight)]

\* a whole number of pixels, in half scaled pixels
hpx(n, range) == 2 * px(n, range)

\* horizontalGap of generateArrowPath
horizontalGap == 12

Pt(x, y) == [x |-> x, y |-> y]

generateArrowPath(fromX, fromY, toX, toY, type, rh, range) ==
    LET gap == hpx(horizontalGap, range)
        verticalOffset == (rh * YScale) \div 2 + 4 * YScale
        midX == fromX + (toX - fromX) \div 2
        goBelow == fromY <= toY
        routeY == IF goBelow THEN Max(fromY, toY) + verticalOffset
                  ELSE Min(fromY, toY) - verticalOffset
        elbow == <<Pt(fromX, fromY), Pt(midX, fromY), Pt(midX, toY),
                   Pt(toX, toY)>>
    IN IF Abs(fromY - toY) < 5 * YScale /\ toX > fromX + gap
       THEN <<Pt(fromX, fromY), Pt(toX, toY)>>
       ELSE IF type = "finish-to-start" \/ type = "start-to-start"
       THEN IF toX > fromX + gap
            THEN elbow
            ELSE <<Pt(fromX, fromY), Pt(fromX + gap, fromY),
                   Pt(fromX + gap, routeY), Pt(toX - gap, routeY),
                   Pt(toX - gap, toY), Pt(toX, toY)>>
       ELSE IF type = "finish-to-finish"
       THEN LET maxX == Max(fromX, toX) + gap
            IN <<Pt(fromX, fromY), Pt(maxX, fromY), Pt(maxX, toY),
                 Pt(toX, toY)>>
       ELSE IF type = "start-to-finish"
       THEN IF fromX < toX - gap
            THEN elbow
            ELSE <<Pt(fromX, fromY), Pt(fromX - gap, fromY),
                   Pt(fromX - gap, routeY), Pt(toX + gap, routeY),
                   Pt(toX + gap, toY), Pt(toX, toY)>>
       ELSE elbow

\* calculateDependencyPath with the successor's end on the edge the
\* predecessor's end is on
calculateDependencyPathSameEdge(fromTask, toTask, type, rh, range) ==
    LET fromDims == getBarDimensions(fromTask.rowIndex, rh)
        toDims == getBarDimensions(toTask.rowIndex, rh)
        fromMidY == fromDims.y + fromDims.height \div 2
        toMidY == toDims.y + toDims.height \div 2
        fromLeft == type \in {"start-to-start", "start-to-finish"}
        fromX == IF fromLeft THEN 2 * fromTask.x
                 ELSE 2 * (fromTask.x + fromTask.width)
        toX == IF fromLeft THEN 2 * toTask.x - hpx(4, range)
               ELSE 2 * (toTask.x + toTask.width) + hpx(4, range)
    IN generateArrowPath(fromX, fromMidY, toX, toMidY, type, rh, range)

calculateDependencyPath(fromTask, toTask, type, rh, range) ==
    LET fromDims == getBarDimensions(fromTask.rowIndex, rh)
        toDims == getBarDimensions(toTask.rowIndex, rh)
        fromMidY == fromDims.y + fromDims.height \div 2
        toMidY == toDims.y + toDims.height \div 2
        fromX == IF type \in {"start-to-start", "start-to-finish"}
                 THEN 2 * fromTask.x
                 ELSE 2 * (fromTask.x + fromTask.width)
        toX == IF type \in {"finish-to-finish", "start-to-finish"}
               THEN 2 * (toTask.x + toTask.width) + hpx(4, range)
               ELSE 2 * toTask.x - hpx(4, range)
    IN generateArrowPath(fromX, fromMidY, toX, toMidY, type, rh, range)

\* arrows dropping a link only when its predecessor is missing
arrowsOfPredecessors(ts, deps, rh, range) ==
    LET arrow(dep) ==
            LET fromTask == taskMapGet(ts, dep.fromId)
                toTask == taskMapGet(ts, dep.toId)
            IN IF fromTask = <<>> THEN <<>>
               ELSE <<[fromId |-> dep.fromId, toId |-> dep.toId,
                       path |-> <<>>, type |-> dep.type]>>
        kept == SelectSeq([k \in 1..Len(deps) |-> arrow(deps[k])],
                          LAMBDA a : a # <<>>)
    IN [k \in 1..Len(kept) |-> Val(kept[k])]

\* the arrows of GanttDependencies: a link is skipped when either task is
\* missing from the map or is not visible; the id `${fromId}-${toId}` is
\* kept as its two parts
arrows(ts, deps, rh, range) ==
    LET arrow(dep) ==
            LET fromTask == taskMapGet(ts, dep.fromId)
                toTask == taskMapGet(ts, dep.toId)
            IN IF \/ fromTask = <<>>
                  \/ toTask = <<>>
                  \/ ~Val(fromTask).isVisible
                  \/ ~Val(toTask).isVisible
               THEN <<>>
               ELSE <<[fromId |-> dep.fromId, toId |-> dep.toId,
                       path |-> calculateDependencyPath(
                                    Val(fromTask), Val(toTask), dep.type,
                                    rh, range),
                       type |-> dep.type]>>
        kept == SelectSeq([k \in 1..Len(deps) |-> arrow(deps[k])],
                          LAMBDA a : a # <<>>)
    IN [k \in 1..Len(kept) |-> Val(kept[k])]

\* the connectors the chart draws
renderedArrows ==
    arrows(visibleTasks(computedTasks), internalDependencies(dependencies),
           rowHeight, dateRange)

--------------------------------------------------------------------------
(* The task lists the layout is checked on *)

IdSeq == <<"a", "b", "c", "d", "e", "f">>
IdOf(i) == IdSeq[i]
\* an id no task of a list carries
GhostId == "ghost"
IdsOf(ts) == {ts[i].id : i \in 1..Len(ts)}

\* a plain task that is not disabled
mkTask(id, parentId, start, end, baselineStart, baselineEnd) ==
    [id |-> id, parentId |-> parentId, type |-> "task",
     isDisabled |-> FALSE, start |-> start, end |-> end,
     baselineStart |-> baselineStart, baselineEnd |-> baselineEnd]

\* hierarchy family: every assignment of parents (none, any task of the
\* list, itself included, or a missing task) to 1 .. MaxTasks one-day tasks
HierLists ==
    UNION {
      { [i \in 1..n |-> mkTask(IdOf(i), par[i], 0, MS_PER_DAY, <<>>, <<>>)] :
          par \in [1..n -> {""} \cup {IdOf(j) : j \in 1..n} \cup {GhostId}] } :
      n \in 1..MaxTasks }

DateInstants == 0..MaxDateInstant

\* a task with any dates: inverted ones and half-given baselines included
DatedTasks(id, parentId) ==
    { mkTask(id, parentId, s, e, bs, be) :
        s \in DateInstants, e \in DateInstants,
        bs \in Opt(DateInstants), be \in Opt(DateInstants) }

\* date family: one task with any dates, alone or as the child of a task
\* that starts on the second day
DateLists ==
    { <<t>> : t \in DatedTasks(IdOf(1), "") }
    \cup { <<mkTask(IdOf(1), "", MS_PER_DAY,
                    Max(MS_PER_DAY, MaxDateInstant - 1), <<>>, <<>>), t>> :
             t \in DatedTasks(IdOf(2), IdOf(1)) }

Init ==
    /\ conv = <<>>
    /\ \/ \E ts \in HierLists : mounted(ts, 0, "week", TRUE, TRUE)
       \/ \E ts \in DateLists, pad \in 0..MaxPadding, mode \in ViewModes :
             mounted(ts, pad, mode, TRUE, TRUE)

Next == \E taskId \in IdsOf(tasks) \cup {GhostId} : handleGroupToggle(taskId)

Spec == Init /\ [][Next]_vars

--------------------------------------------------------------------------
(* The drag controller on a chart of one task *)

DragInstants == 0..MaxDragInstant
ClientXs == {k * PxStep : k \in 0..MaxPxSteps}

\* drag family: one plain, enabled task with any dates start <= end, or a
\* one-day task that is disabled, a milestone or a group
DragLists ==
    { <<mkTask(IdOf(1), "", p[1], p[2], <<>>, <<>>)>> :
        p \in {q \in DragInstants \X DragInstants : q[1] <= q[2]} }
    \cup { <<[mkTask(IdOf(1), "", 0, MS_PER_DAY, <<>>, <<>>)
               EXCEPT !.type = ty, !.isDisabled = dis]>> :
             ty \in {"task", "milestone", "group"}, dis \in BOOLEAN }

InitDrag ==
    /\ conv = <<>>
    /\ \E ts \in DragLists, pad \in 0..MaxPadding, mode \in ViewModes,
          drag \in BOOLEAN, resize \in BOOLEAN :
          mounted(ts, pad, mode, drag, resize)

\* the chart is on the page: it has not been unmounted
isMounted == lastStep # <<"unmount">>

\* a mousedown on the bar of the i-th task or on one of its handles
barMouseDown(i, clientX, mode) ==
    /\ isMounted
    /\ lastStep' = <<"mousedown", mode>>
    /\ handleTaskDragStart(i, clientX, mode)

\* a mousemove on the document: it runs the listener if one is installed
documentMouseMove(clientX) ==
    /\ isMounted
    /\ lastStep' = <<"mousemove">>
    /\ IF listening THEN handleMouseMove(clientX) ELSE UNCHANGED appVars

\* a mouseup on the document
documentMouseUp ==
    /\ isMounted
    /\ lastStep' = <<"mouseup">>
    /\ IF listening THEN handleMouseUp ELSE UNCHANGED appVars

\* a keydown on the document
documentKeyDown(key) ==
    /\ isMounted
    /\ lastStep' = <<"keydown", key>>
    /\ IF listening THEN handleKeyDown(key) ELSE UNCHANGED appVars

\* the effect that installs the listeners and never runs its cleanup
listenersEffectInstallOnly ==
    /\ isMounted
    /\ listening # isDragging
    /\ listening' = TRUE
    /\ lastStep' = <<"effect">>
    /\ UNCHANGED <<propVars, layoutVars, isDragging, previewStart,
                   previewEnd, dragState, previewStartRef, previewEndRef,
                   startReport, moveReport, endReport, dateChange, conv>>

\* useEffect(..., [isDragging]) after a render in which isDragging has
\* changed: the listeners are installed when it is true, the cleanup
\* removes them when it is false.  The effect runs at some time after the
\* event that changed isDragging; events may be delivered before it runs.
listenersEffect ==
    /\ isMounted
    /\ listening # isDragging
    /\ listening' = isDragging
    /\ lastStep' = <<"effect">>
    /\ UNCHANGED <<propVars, layoutVars, isDragging, previewStart,
                   previewEnd, dragState, previewStartRef, previewEndRef,
                   startReport, moveReport, endReport, dateChange, conv>>

\* the chart is unmounted: the cleanup of the effect removes the
\* listeners if they are installed; nothing else is reset and no handler
\* runs afterwards
unmount ==
    /\ isMounted
    /\ listening' = FALSE
    /\ lastStep' = <<"unmount">>
    /\ UNCHANGED <<propVars, layoutVars, isDragging, previewStart,
                   previewEnd, dragState, previewStartRef, previewEndRef,
                   startReport, moveReport, endReport, dateChange, conv>>

NextDrag ==
    \/ \E i \in 1..Len(computedTasks), clientX \in ClientXs, mode \in DragModes :
          barMouseDown(i, clientX, mode)
    \/ \E clientX \in ClientXs : documentMouseMove(clientX)
    \/ documentMouseUp
    \/ \E key \in Keys : documentKeyDown(key)
    \/ listenersEffect
    \/ unmount

SpecDrag == InitDrag /\ [][NextDrag]_vars

--------------------------------------------------------------------------
(* Dependency links on a chart of two tasks *)

\* the dates of the two tasks are instants 0 .. MaxDepInstant
MaxDepInstant == 2
\* the smallest row height a chart is given
MinRowHeight == 4

DepInstants == 0..MaxDepInstant
RowHeights == {MinRowHeight, defaultRowHeight}

\* two tasks with any dates start <= end, the second a root or the child
\* of the first
DepTaskLists ==
    { <<mkTask(IdOf(1), "", p[1], p[2], <<>>, <<>>),
        mkTask(IdOf(2), par, q[1], q[2], <<>>, <<>>)>> :
        p \in {r \in DepInstants \X DepInstants : r[1] <= r[2]},
        q \in {r \in DepInstants \X DepInstants : r[1] <= r[2]},
        par \in {"", IdOf(1)} }

\* a link between two of: the first task, the second task, a missing
\* task; of any type, or of none
Links ==
    [fromId : {IdOf(1), IdOf(2), GhostId},
     toId : {IdOf(1), IdOf(2), GhostId},
     type : DependencyTypes \cup {""}]

\* no link, one link, or an untyped link followed by the finish-to-start
\* link from the first task to the second
DepLinkLists ==
    {<<>>}
    \cup {<<l>> : l \in Links}
    \cup {<<l, [fromId |-> IdOf(1), toId |-> IdOf(2),
                type |-> "finish-to-start"]>> :
            l \in {m \in Links : m.type = ""}}

InitDeps ==
    /\ conv = <<>>
    /\ \E ts \in DepTaskLists, deps \in DepLinkLists, rh \in RowHeights :
          mountedWith(ts, 0, "day", TRUE, TRUE, deps, rh)

NextDeps == \E taskId \in IdsOf(tasks) : handleGroupToggle(taskId)

SpecDeps == InitDeps /\ [][NextDeps]_vars

--------------------------------------------------------------------------
(* Chains of conversions between dates and pixels *)

\* conversion chains have at most MaxHops conversions
MaxHops == 3

\* the kind of the k-th value of a chain that starts with a value of kind
\* origin
kindAt(origin, k) ==
    IF k % 2 = 1 THEN origin ELSE IF origin = "date" THEN "x" ELSE "date"

\* the chain so far: its last value is converted next
lastKind == kindAt(conv.origin, Len(conv.trail))
lastVal == conv.trail[Len(conv.trail)]

\* a chain starts with a date of the range or with a pixel position of
\* the chart, 0 <= x <= width, given in scaled pixels
InitCoord ==
    /\ \E ts \in {<<mkTask(IdOf(1), "", 0, MS_PER_DAY, <<>>, <<>>)>>} :
          mounted(ts, 0, "week", TRUE, TRUE)
    /\ \E rs \in 0..MaxConvInstant, re \in 0..MaxConvInstant,
          w \in 1..MaxConvWidth :
          /\ rs < re
          /\ \/ \E d \in rs..re :
                   conv = [range |-> [start |-> rs, end |-> re], width |-> w,
                           origin |-> "date", trail |-> <<d>>]
             \/ \E x \in 0..(w * (re - rs)) :
                   conv = [range |-> [start |-> rs, end |-> re], width |-> w,
                           origin |-> "x", trail |-> <<x>>]

applyDateToX ==
    /\ Len(conv.trail) <= MaxHops
    /\ lastKind = "date"
    /\ conv' = [conv EXCEPT !.trail =
                   Append(@, dateToX(lastVal, conv.range, conv.width))]
    /\ UNCHANGED <<propVars, layoutVars, dragVars, lastStep>>

applyXToDate ==
    /\ Len(conv.trail) <= MaxHops
    /\ lastKind = "x"
    /\ conv' = [conv EXCEPT !.trail =
                   Append(@, xToDate(lastVal, conv.range, conv.width))]
    /\ UNCHANGED <<propVars, layoutVars, dragVars, lastStep>>

NextCoord == applyDateToX \/ applyXToDate

SpecCoord == InitCoord /\ [][NextCoord]_vars

--------------------------------------------------------------------------
(* Snapping of pixel positions *)

\* positions reach MaxSnapDays days' width before the range and after it
MaxSnapDays == 1

\* one day's pixel width, in scaled pixels
dayWidth(width) == MS_PER_DAY * width

\* a position is snapped, and the result is snapped again, possibly in a
\* different view mode
MaxSnaps == 2

\* a range, which a custom range lets start anywhere in a day, a chart
\* width and a position x in scaled pixels, inside the chart or outside
InitSnap ==
    /\ \E ts \in {<<mkTask(IdOf(1), "", 0, MS_PER_DAY, <<>>, <<>>)>>} :
          mounted(ts, 0, "week", TRUE, TRUE)
    /\ \E rs \in 0..MaxConvInstant, re \in 0..MaxConvInstant,
          w \in 1..MaxConvWidth :
          /\ rs < re
          /\ \E x \in (0 - MaxSnapDays * dayWidth(w))
                        ..(w * (re - rs) + MaxSnapDays * dayWidth(w)) :
                conv = [range |-> [start |-> rs, end |-> re], width |-> w,
                        x |-> x, snaps |-> <<>>]

\* snapToGrid applied to the position, or to the latest snapped position
applySnapToGrid(mode) ==
    /\ Len(conv.snaps) < MaxSnaps
    /\ LET from == IF conv.snaps = <<>> THEN conv.x
                   ELSE conv.snaps[Len(conv.snaps)].to
       IN conv' = [conv EXCEPT !.snaps =
                      Append(@, [mode |-> mode, from |-> from,
                                 to |-> snapToGrid(from, conv.range,
                                                   conv.width, mode)])]
    /\ UNCHANGED <<propVars, layoutVars, dragVars, lastStep>>

\* the same position snapped in another view mode
resnapInMode(mode) ==
    /\ conv.snaps # <<>>
    /\ Len(conv.snaps) < MaxSnaps
    /\ LET from == conv.snaps[Len(conv.snaps)].from
       IN conv' = [conv EXCEPT !.snaps =
                      Append(@, [mode |-> mode, from |-> from,
                                 to |-> snapToGrid(from, conv.range,
                                                   conv.width, mode)])]
    /\ UNCHANGED <<propVars, layoutVars, dragVars, lastStep>>

NextSnap ==
    \E mode \in ViewModes : applySnapToGrid(mode) \/ resnapInMode(mode)

SpecSnap == InitSnap /\ [][NextSnap]_vars

--------------------------------------------------------------------------
(* utils/date.ts generateDateGrid and components/GanttGrid.tsx: the grid *)
(* columns.  The calendar is an input: cal.weekday0 is the weekday of    *)
(* the day of instant 0 (getDay: 0 is Sunday), cal.dom0 its day of the   *)
(* month, and the months around it have cal.monthDays days.              *)

\* the number of the day of an instant, day 0 being the day of instant 0
dayIndex(date) == date \div MS_PER_DAY

\* getDay()
getDay(date, cal) == (dayIndex(date) + cal.weekday0) % 7

\* startOfWeek(date, firstDayOfWeek)
startOfWeek(date, firstDayOfWeek, cal) ==
    LET day == getDay(date, cal)
        diff == (IF day < firstDayOfWeek THEN 7 ELSE 0) + day - firstDayOfWeek
    IN startOfDay(date) - diff * MS_PER_DAY

\* setDate(1); setHours(0, 0, 0, 0)
startOfMonth(date, cal) ==
    startOfDay(date)
      - ((dayIndex(date) + cal.dom0 - 1) % cal.monthDays) * MS_PER_DAY

\* addWeeks(date, 1)
addWeeks(date, weeks) == addDays(date, Days(weeks * 7))

\* addMonths(date, 1) from the first day of a month
addMonths(date, months, cal) == date + months * cal.monthDays * MS_PER_DAY

\* while (current <= dateRange.end) { dates.push(current); current = next }
\* with next = current + step
RECURSIVE gridFrom(_, _, _)
gridFrom(current, end, step) ==
    IF current > end THEN <<>>
    ELSE <<current>> \o gridFrom(current + step, end, step)

\* generateDateGrid
generateDateGrid(range, mode, firstDayOfWeek, cal) ==
    CASE mode = "day" ->
           gridFrom(range.start, range.end,
                    addDays(range.start, Days(1)) - range.start)
      [] mode = "week" ->
           LET current == startOfWeek(range.start, firstDayOfWeek, cal)
           IN gridFrom(current, range.end, addWeeks(current, 1) - current)
      [] mode = "month" ->
           LET current == startOfMonth(range.start, cal)
           IN gridFrom(current, range.end,
                       addMonths(current, 1, cal) - current)

\* the left boundary of the column of index `index` (from 0) of GanttGrid,
\* in scaled pixels
columnX(index, mode, range) == px(index * getColumnWidth(mode), range)

\* calendars: any weekday for day 0, which is the first, the second or
\* the last day of a month of 28 or 31 days
Calendars ==
    { [weekday0 |-> wd, dom0 |-> dom, monthDays |-> len] :
        wd \in 0..6, dom \in {1, 2, 28, 31}, len \in {28, 31} }

\* the chart of one task with ordered dates and the range derived from
\* it, in any view mode, on any calendar, the grid not yet rendered
InitGrid ==
    /\ \E ts \in { <<mkTask(IdOf(1), "", p[1], p[2], <<>>, <<>>)>> :
                     p \in {q \in DateInstants \X DateInstants :
                              q[1] <= q[2]} },
          pad \in 0..MaxPadding, mode \in ViewModes :
          mounted(ts, pad, mode, TRUE, TRUE)
    /\ \E cal \in {c \in Calendars : c.dom0 <= c.monthDays},
          firstDayOfWeek \in {0, 1} :
          conv = [cal |-> cal, firstDayOfWeek |-> firstDayOfWeek,
                  gridDates |-> <<>>]

\* GanttGrid renders: gridDates = generateDateGrid(dateRange, viewMode,
\* firstDayOfWeek); the columns are drawn at index * columnWidth
renderGrid ==
    /\ conv.gridDates = <<>>
    /\ conv' = [conv EXCEPT !.gridDates =
                   <<generateDateGrid(dateRange, viewMode,
                                      conv.firstDayOfWeek, conv.cal)>>]
    /\ UNCHANGED <<propVars, layoutVars, dragVars, lastStep>>

NextGrid == renderGrid

SpecGrid == InitGrid /\ [][NextGrid]_vars

--------------------------------------------------------------------------
(* Properties of the layout, under Spec *)

SetMin(S) == CHOOSE m \in S : \A n \in S : m <= n
SetMax(S) == CHOOSE m \in S : \A n \in S : m >= n

\* the caller's task with the given id
TaskById(id) == tasks[CHOOSE i \in 1..Len(tasks) : tasks[i].id = id]

Entries == 1..Len(computedTasks)

\* C1: every computed entry, visible or hidden, has baselineX and
\* baselineWidth exactly when its task has both baseline dates; they are
\* then dateToX(baselineStart) and calculateBarWidth(baselineStart,
\* baselineEnd) under the range and width of the current bar, so a
\* baseline that starts with the task starts at the bar's x.
C1_BaselineAligned ==
    \A i \in Entries :
        LET c == computedTasks[i]
            t == TaskById(c.id)
            both == Some(t.baselineStart) /\ Some(t.baselineEnd)
        IN /\ Some(c.baselineX) <=> both
           /\ Some(c.baselineWidth) <=> both
           /\ both =>
                /\ Val(c.baselineX)
                     = dateToX(Val(t.baselineStart), dateRange, chartWidth)
                /\ Val(c.baselineWidth)
                     = calculateBarWidth(Val(t.baselineStart),
                                         Val(t.baselineEnd), dateRange,
                                         chartWidth)
                /\ Val(t.baselineStart) = t.start => Val(c.baselineX) = c.x

\* a hidden entry whose baseline starts with the task, away from the
\* chart's left edge, beside an entry without a baseline
C1_Witness ==
    /\ chartWidth > 0
    /\ \E i \in Entries :
          LET c == computedTasks[i]
          IN /\ ~c.isVisible
             /\ Some(c.baselineX) /\ Some(c.baselineWidth)
             /\ Val(c.baselineStart) = c.start
             /\ Val(c.baselineX) = c.x /\ c.x > 0
    /\ \E i \in Entries : ~Some(computedTasks[i].baselineX)

Given(S) == {Val(o) : o \in {o \in S : Some(o)}}
TaskIdx == 1..Len(tasks)
StartDates ==
    {tasks[i].start : i \in TaskIdx}
    \cup Given({tasks[i].baselineStart : i \in TaskIdx})
EndDates ==
    {tasks[i].end : i \in TaskIdx}
    \cup Given({tasks[i].baselineEnd : i \in TaskIdx})
AllDates == StartDates \cup EndDates

\* the range starts on the first tick of the day of lo and ends on the
\* last tick of the day of hi
RangeIsDaysOf(lo, hi) ==
    /\ dateRange.start % MS_PER_DAY = 0
    /\ dateRange.start <= lo /\ lo < dateRange.start + MS_PER_DAY
    /\ dateRange.end % MS_PER_DAY = MS_PER_DAY - 1
    /\ dateRange.end - MS_PER_DAY < hi /\ hi <= dateRange.end

\* every task has start <= end and a whole, ordered baseline or none
WellFormedDates ==
    \A i \in TaskIdx :
        /\ tasks[i].start <= tasks[i].end
        /\ Some(tasks[i].baselineStart) <=> Some(tasks[i].baselineEnd)
        /\ Some(tasks[i].baselineStart) =>
             Val(tasks[i].baselineStart) <= Val(tasks[i].baselineEnd)

\* C3 as stated: the range spans the days of the minimum and of the
\* maximum over all four dates of all tasks, widened by the padding.
C3_RangeOfAllDates ==
    RangeIsDaysOf(SetMin(AllDates) - padding * MS_PER_DAY,
                  SetMax(AllDates) + padding * MS_PER_DAY)

\* C3 amended: the range starts at 00:00:00.000 of the day of (the minimum
\* over all start and baselineStart dates, minus padding days) and ends at
\* 23:59:59.999 of the day of (the maximum over all end and baselineEnd
\* dates, plus padding days); these are the minimum and maximum over all
\* four dates when every task has start <= end and a baseline that is
\* whole and ordered.
C3_RangeOfStartsAndEnds ==
    /\ RangeIsDaysOf(SetMin(StartDates) - padding * MS_PER_DAY,
                     SetMax(EndDates) + padding * MS_PER_DAY)
    /\ WellFormedDates => C3_RangeOfAllDates

\* two tasks, a padding, and a baseline that lies before every current
\* schedule and after none: the range starts on the baseline's day, less
\* the padding
C3_Witness ==
    /\ Len(tasks) = 2 /\ padding > 0 /\ WellFormedDates
    /\ \E i \in TaskIdx :
          /\ Some(tasks[i].baselineStart)
          /\ \A j \in TaskIdx :
                Val(tasks[i].baselineEnd) < tasks[j].start
          /\ dateRange.start
               = startOfDay(Val(tasks[i].baselineStart)) - padding * MS_PER_DAY
          /\ dateRange.start
               < startOfDay(SetMin({tasks[j].start : j \in TaskIdx}))
                 - padding * MS_PER_DAY

\* the width of the chart and the minimum width of a bar (4 pixels), in
\* scaled pixels
ChartWidthPx == chartWidth * Abs(totalMs(dateRange))

MinBarPx == 4 * Abs(totalMs(dateRange))

\* the entries that carry a baseline bar
BaselineEntries == { k \in Entries : Some(computedTasks[k].baselineX) }

BaselineRight(k) ==
    Val(computedTasks[k].baselineX) + Val(computedTasks[k].baselineWidth)

\* C21, as stated: with the range derived from the tasks, every baseline
\* bar lies inside the chart: 0 <= baselineX and
\* baselineX + baselineWidth <= chartWidth, in every time scale.
C21_BaselineInsideChart ==
    \A k \in BaselineEntries :
        /\ 0 <= Val(computedTasks[k].baselineX)
        /\ BaselineRight(k) <= ChartWidthPx

\* C21, amended: when every baseline is ordered (baselineStart <=
\* baselineEnd), every baseline bar starts inside the chart and its dated
\* extent ends inside the chart; the bar itself can pass the right edge
\* only when it is drawn at the minimum width of 4 pixels, then by at
\* most 4 pixels, and never when the padding is at least one day.
C21_BaselineInsideChartUpToMinWidth ==
    WellFormedDates =>
        \A k \in BaselineEntries :
            LET c == computedTasks[k]
                t == TaskById(c.id)
            IN /\ 0 <= Val(c.baselineX)
               /\ Val(c.baselineX) <= ChartWidthPx
               /\ dateToX(Val(t.baselineEnd), dateRange, chartWidth)
                    <= ChartWidthPx
               /\ BaselineRight(k) > ChartWidthPx =>
                    /\ Val(c.baselineWidth) = MinBarPx
                    /\ BaselineRight(k) <= ChartWidthPx + MinBarPx
                    /\ padding = 0

\* a baseline wider than the minimum that starts and ends after every
\* current schedule, inside the chart
C21_Witness ==
    /\ WellFormedDates
    /\ \E k \in BaselineEntries :
          /\ \A i \in TaskIdx :
                Val(TaskById(computedTasks[k].id).baselineStart) > tasks[i].end
          /\ Val(computedTasks[k].baselineWidth) > MinBarPx
          /\ Val(computedTasks[k].baselineX) > 0
          /\ BaselineRight(k) <= ChartWidthPx

--------------------------------------------------------------------------
(* The parent forest, defined on the caller's list *)

RECURSIVE AncestorsWithin(_, _)
\* the proper ancestors of id reached in at most n steps along parentId,
\* within the collection
AncestorsWithin(id, n) ==
    LET p == TaskById(id).parentId
    IN IF n = 0 \/ p = "" \/ p \notin IdsOf(tasks) THEN {}
       ELSE {p} \cup AncestorsWithin(p, n - 1)

Ancestors(id) == AncestorsWithin(id, Len(tasks))
Descendants(id) == {d \in IdsOf(tasks) : id \in Ancestors(d)}
IsRootId(id) ==
    TaskById(id).parentId = "" \/ TaskById(id).parentId \notin IdsOf(tasks)
\* the parent chain of id ends at a root
Rooted(id) == \E r \in {id} \cup Ancestors(id) : IsRootId(r)
NoCycle == \A id \in IdsOf(tasks) : Rooted(id)

OutIds(out) == {out[i].id : i \in 1..Len(out)}
PosIn(out, id) == CHOOSE i \in 1..Len(out) : out[i].id = id
IdSeqOf(out) == [i \in 1..Len(out) |-> out[i].id]

\* C4: a computed entry is visible exactly when none of its ancestors
\* within the collection is in the collapsed-id set; its own membership
\* does not count.
C4_VisibleIffNoCollapsedAncestor ==
    \A i \in Entries :
        computedTasks[i].isVisible
          <=> Ancestors(computedTasks[i].id) \cap collapsedIds = {}

\* a collapsed task that is visible, and a task hidden by its grandparent
\* under a parent that is not collapsed
C4_Witness ==
    /\ \E i \in Entries :
          computedTasks[i].isVisible /\ computedTasks[i].isCollapsed
    /\ \E i \in Entries :
          /\ ~computedTasks[i].isVisible
          /\ computedTasks[i].parentId \notin collapsedIds
          /\ Ancestors(computedTasks[i].id) \cap collapsedIds # {}

\* C5: the visible entries carry the row indices 0, 1, ..., k-1 in
\* flattened order, and every hidden entry carries -1.
C5_RowIndices ==
    \A i \in Entries :
        computedTasks[i].rowIndex =
            IF computedTasks[i].isVisible
            THEN Cardinality({j \in 1..(i - 1) : computedTasks[j].isVisible})
            ELSE -1

\* a hidden entry between two visible ones, whose rows are consecutive
C5_Witness ==
    \E i \in Entries, j \in Entries, k \in Entries :
        /\ i < j /\ j < k
        /\ computedTasks[i].isVisible /\ computedTasks[k].isVisible
        /\ ~computedTasks[j].isVisible /\ computedTasks[j].rowIndex = -1
        /\ computedTasks[k].rowIndex = computedTasks[i].rowIndex + 1

\* the positions computed before (a) and after (b) g joins the collapsed set
CollapseStable(a, b, g) ==
    /\ IdSeqOf(a) = IdSeqOf(b)
    /\ \A i \in 1..Len(a) :
          a[i].id \notin Descendants(g) => b[i].isVisible = a[i].isVisible
    /\ \A i \in 1..Len(a), j \in 1..Len(a) :
          b[i].isVisible /\ b[j].isVisible =>
            /\ a[i].isVisible /\ a[j].isVisible
            /\ a[i].rowIndex < a[j].rowIndex <=> b[i].rowIndex < b[j].rowIndex
    /\ \A i \in 1..Len(a) :
          (g \notin OutIds(a) \/ i <= PosIn(a, g)) =>
            b[i].rowIndex = a[i].rowIndex

\* C6: when a toggle adds g to the collapsed-id set, every task that is
\* not a descendant of g keeps its visibility, the tasks still visible keep
\* their relative order by row index, and g and every task before it in
\* flattened order keep their row index.
C6_CollapseStable ==
    [][\A g \in IdsOf(tasks) \cup {GhostId} :
         (g \notin collapsedIds /\ collapsedIds' = collapsedIds \cup {g})
           => CollapseStable(computedTasks, computedTasks', g)]_vars

\* a collapsed, visible task with a hidden descendant and a visible task
\* after its subtree, whose row follows the collapsed task's
C6_Witness ==
    \E i \in Entries, j \in Entries, k \in Entries :
        /\ i < j /\ j < k
        /\ computedTasks[i].isCollapsed /\ computedTasks[i].isVisible
        /\ computedTasks[j].id \in Descendants(computedTasks[i].id)
        /\ ~computedTasks[j].isVisible
        /\ computedTasks[k].id \notin Descendants(computedTasks[i].id)
        /\ computedTasks[k].isVisible
        /\ computedTasks[k].rowIndex = computedTasks[i].rowIndex + 1

\* C7 as stated: one computed entry per task of the list.
C7_OneEntryPerTask ==
    /\ Len(computedTasks) = Len(tasks)
    /\ OutIds(computedTasks) = IdsOf(tasks)

\* C7 amended: the output holds exactly one entry for each task whose
\* parent chain ends at a root and none for a task on or under a cycle of
\* parent references; so a list without such a cycle gets one entry per
\* task, visible or hidden.
C7_OneEntryPerRootedTask ==
    /\ \A i \in Entries, j \in Entries :
          computedTasks[i].id = computedTasks[j].id => i = j
    /\ OutIds(computedTasks) = {id \in IdsOf(tasks) : Rooted(id)}
    /\ NoCycle => C7_OneEntryPerTask

\* a list of MaxTasks tasks without a cycle, one of them with a missing
\* parent, whose output has hidden entries
C7_Witness ==
    /\ NoCycle /\ Len(tasks) = MaxTasks /\ Len(computedTasks) = MaxTasks
    /\ \E i \in Entries : ~computedTasks[i].isVisible
    /\ \E i \in Entries : computedTasks[i].parentId = GhostId

\* C8: the flattened sequence is the pre-order of the parent forest: the
\* roots (no parentId, or a parentId no task carries) in list order, at
\* level 0 and visible; each task followed at once by all its
\* descendants; the children of a task in list order, one level deeper.
C8_PreOrder ==
    LET out == computedTasks
        pos(id) == PosIn(tasks, id)
    IN /\ SelectSeq(IdSeqOf(out), IsRootId) = SelectSeq(IdSeqOf(tasks), IsRootId)
       /\ \A i \in Entries :
             IsRootId(out[i].id) => out[i].level = 0 /\ out[i].isVisible
       /\ \A i \in Entries :
             LET n == Cardinality(Descendants(out[i].id))
             IN /\ i + n <= Len(out)
                /\ {out[j].id : j \in (i + 1)..(i + n)} = Descendants(out[i].id)
       /\ \A i \in Entries, j \in Entries :
             (i < j /\ ~IsRootId(out[i].id) /\ ~IsRootId(out[j].id)
                /\ out[i].parentId = out[j].parentId)
               => pos(out[i].id) < pos(out[j].id)
       /\ \A i \in Entries :
             ~IsRootId(out[i].id) =>
               out[i].level = out[PosIn(out, out[i].parentId)].level + 1

\* a root with a missing parent, two siblings below a root that the list
\* names after them, in an output whose order is not the list's
C8_Witness ==
    /\ IdSeqOf(computedTasks) # IdSeqOf(tasks)
    /\ \E i \in Entries :
          computedTasks[i].parentId = GhostId /\ computedTasks[i].level = 0
    /\ \E i \in Entries : computedTasks[i].level = 1

\* rootTasks taking every task as a root
rootTasksEveryTask(ts) == 1..Len(ts)

\* the indices of rootTasks: the tasks addTask is first called on
rootTasks(ts) == {i \in 1..Len(ts) : isRoot(ts, ts[i])}

\* the depth the recursion of addTask reaches from the task at index i,
\* followed for at most fuel nested calls: it equals fuel exactly when the
\* recursion is still descending after fuel calls
RECURSIVE callDepth(_, _, _)
callDepth(ts, i, fuel) ==
    IF fuel = 0 THEN 0
    ELSE LET children == {j \in 1..Len(ts) : ts[j].parentId = ts[i].id}
         IN 1 + SetMax({0} \cup {callDepth(ts, j, fuel - 1) : j \in children})

\* C29: for every task list with unique ids, parent cycles and tasks that
\* are their own parent included, the flattening terminates: from every
\* root the nested calls of addTask stop within Len(tasks) levels, no task
\* is entered twice, and the compiled list has at most Len(tasks) entries.
C29_FlatteningTerminates ==
    /\ \A r \in rootTasks(tasks) :
          callDepth(tasks, r, Len(tasks) + 1) <= Len(tasks)
    /\ Len(computedTasks) <= Len(tasks)
    /\ \A i, j \in Entries :
          computedTasks[i].id = computedTasks[j].id => i = j

\* a root above a child, next to a task that is its own parent: the
\* compiled list holds the root and its child only
C29_Witness ==
    /\ Len(tasks) = 3
    /\ \E i, j, k \in TaskIdx :
          /\ tasks[i].parentId = ""
          /\ tasks[j].parentId = tasks[i].id /\ j # i
          /\ tasks[k].parentId = tasks[k].id
          /\ IdSeqOf(computedTasks) = <<tasks[i].id, tasks[j].id>>
          /\ callDepth(tasks, i, Len(tasks) + 1) = 2

\* two tasks that are each other's parent: no task is a root and the
\* compiled list is empty
ParentCycleLeftOut ==
    /\ \E i, j \in TaskIdx :
          /\ i # j
          /\ tasks[i].parentId = tasks[j].id
          /\ tasks[j].parentId = tasks[i].id
    /\ rootTasks(tasks) = {}
    /\ computedTasks = <<>>

\* the collapsed-id set with the membership of g flipped
Flipped(S, g) == IF g \in S THEN S \ {g} ELSE S \cup {g}

\* C17: a toggle for g flips the membership of g alone in the
\* collapsed-id set and emits one group-toggle event for g whose expanded
\* flag is true exactly when g is expanded (not in the set) after the
\* toggle.
C17_ToggleFlipsAndReports ==
    [][\E g \in IdsOf(tasks) \cup {GhostId} :
          /\ collapsedIds' = Flipped(collapsedIds, g)
          /\ groupToggle' = <<[taskId |-> g,
                               isExpanded |-> g \notin collapsedIds']>>]_vars

--------------------------------------------------------------------------
(* Properties of the dependency connectors, under SpecDeps *)

\* the entry of a task that is in the collection and is visible, as a set
\* of at most one entry
VisibleEntry(id) ==
    {computedTasks[i] : i \in {j \in 1..Len(computedTasks) :
                                 /\ computedTasks[j].id = id
                                 /\ id \in IdsOf(tasks)
                                 /\ computedTasks[j].isVisible}}

\* the positions in the dependency list of the links to be drawn
DrawnLinks ==
    {k \in 1..Len(dependencies) :
        /\ VisibleEntry(dependencies[k].fromId) # {}
        /\ VisibleEntry(dependencies[k].toId) # {}}

\* the k-th member of a set of positions, in increasing order
RECURSIVE NthOf(_, _)
NthOf(S, k) == IF k = 1 THEN SetMin(S) ELSE NthOf(S \ {SetMin(S)}, k - 1)

\* C18: the connectors are exactly the links whose two endpoints are
\* both in the task collection and both visible, in the order of the
\* dependency list; a link with a missing or hidden endpoint yields no
\* connector.
C18_ConnectorsOfVisibleLinks ==
    /\ Len(renderedArrows) = Cardinality(DrawnLinks)
    /\ \A k \in 1..Len(renderedArrows) :
          /\ renderedArrows[k].fromId = dependencies[NthOf(DrawnLinks, k)].fromId
          /\ renderedArrows[k].toId = dependencies[NthOf(DrawnLinks, k)].toId

\* the link from the first task to its child yields no connector while
\* the first task is collapsed
C18_Witness ==
    /\ Len(dependencies) = 1
    /\ dependencies[1].fromId = IdOf(1) /\ dependencies[1].toId = IdOf(2)
    /\ tasks[2].parentId = IdOf(1)
    /\ IdOf(1) \in collapsedIds
    /\ renderedArrows = <<>>

\* the visible entry of an endpoint of a connector
EndOf(id) == CHOOSE t \in VisibleEntry(id) : TRUE

\* the rectangle of a task's bar: its horizontal span in half scaled
\* pixels, its task-bar vertical span in its own row over YScale
BarRect(t) ==
    LET dims == getBarDimensions(t.rowIndex, rowHeight)
    IN [left |-> 2 * t.x, right |-> 2 * (t.x + t.width),
        top |-> dims.y, bottom |-> dims.y + dims.height]

MidY(t) ==
    LET dims == getBarDimensions(t.rowIndex, rowHeight)
    IN dims.y + dims.height \div 2

\* the positions of the segments of a path: segment k joins points k, k+1
SegmentsOf(path) == 1..(Len(path) - 1)

\* a horizontal or vertical segment has points inside the rectangle
PassesThrough(p, q, r) ==
    /\ Min(p.x, q.x) < r.right /\ Max(p.x, q.x) > r.left
    /\ Min(p.y, q.y) < r.bottom /\ Max(p.y, q.y) > r.top

AxisParallel(p, q) == p.x = q.x \/ p.y = q.y

\* the successor's anchor is not more than the horizontal gap to the
\* right of the predecessor's anchor
Backward(path) ==
    ~(path[Len(path)].x > path[1].x + hpx(horizontalGap, dateRange))

\* C19: a finish-to-start connector between two tasks on different rows
\* whose successor anchor is not at least the horizontal gap to the right
\* of the predecessor anchor has more than one segment, and none of its
\* segments passes through the bar of either task.
C19_BackwardLinkAvoidsBars ==
    \A k \in 1..Len(renderedArrows) :
        LET a == renderedArrows[k]
            from == EndOf(a.fromId)
            to == EndOf(a.toId)
        IN (/\ a.type = "finish-to-start"
            /\ from.rowIndex # to.rowIndex
            /\ Backward(a.path)) =>
               /\ Len(a.path) > 2
               /\ \A n \in SegmentsOf(a.path) :
                     /\ AxisParallel(a.path[n], a.path[n + 1])
                     /\ ~PassesThrough(a.path[n], a.path[n + 1],
                                       BarRect(from))
                     /\ ~PassesThrough(a.path[n], a.path[n + 1],
                                       BarRect(to))

\* the two ends of a connector are on the edges its type names, at the
\* middle of the bars, the successor's 4 pixels outward
EndsOnNamedEdges(a) ==
    LET from == EndOf(a.fromId)
        to == EndOf(a.toId)
        first == a.path[1]
        last == a.path[Len(a.path)]
    IN /\ first.y = MidY(from)
       /\ last.y = MidY(to)
       /\ first.x = IF a.type \in {"finish-to-start", "finish-to-finish"}
                    THEN BarRect(from).right ELSE BarRect(from).left
       /\ last.x = IF a.type \in {"finish-to-start", "start-to-start"}
                   THEN BarRect(to).left - hpx(4, dateRange)
                   ELSE BarRect(to).right + hpx(4, dateRange)

AllAxisParallel(path) ==
    \A n \in SegmentsOf(path) : AxisParallel(path[n], path[n + 1])

--------------------------------------------------------------------------
(* Properties of the drag controller, under SpecDrag *)

\* a session is open and its latest event was a pointer-move
AfterMove == dragState # <<>> /\ moveReport # <<>>

\* the date at the snapped position of the dragged edge in the latest
\* pointer-move: the left edge, or the right edge for resize-right
SnappedCandidate ==
    LET state == Val(dragState)
        deltaX == px(Val(moveReport).clientX - state.startX, dateRange)
        edgeX == IF state.mode = "resize-right"
                 THEN state.startTaskX + state.startTaskWidth + deltaX
                 ELSE state.startTaskX + deltaX
    IN xToDate(snapToGrid(edgeX, dateRange, chartWidth, viewMode),
               dateRange, chartWidth)

\* the preview the controller exposes is the one the move reported
PreviewIsReported ==
    /\ Val(previewStart) = Val(moveReport).newStart
    /\ Val(previewEnd) = Val(moveReport).newEnd
    /\ previewStartRef = previewStart
    /\ previewEndRef = previewEnd

\* C9: after a pointer-move of a resize gesture the preview spans at least
\* one day; a snapped start at or after the end gives previewStart =
\* previewEnd - 1 day, a snapped end at or before the start gives
\* previewEnd = previewStart + 1 day.
C9_ResizeKeepsOneDay ==
    (AfterMove /\ isResizeMode(Val(dragState).mode)) =>
        LET state == Val(dragState)
        IN /\ PreviewIsReported
           /\ Val(previewEnd) - Val(previewStart) >= MS_PER_DAY
           /\ (state.mode = "resize-left"
                 /\ SnappedCandidate >= state.originalEnd)
                => Val(previewStart) = Val(previewEnd) - MS_PER_DAY
           /\ (state.mode = "resize-right"
                 /\ SnappedCandidate <= state.originalStart)
                => Val(previewEnd) = Val(previewStart) + MS_PER_DAY

\* C10: after a pointer-move of a move gesture the preview has the
\* duration of the task's original dates.
C10_MoveKeepsDuration ==
    (AfterMove /\ Val(dragState).mode = "move") =>
        /\ PreviewIsReported
        /\ Val(previewEnd) - Val(previewStart)
             = Val(dragState).originalEnd - Val(dragState).originalStart

\* the step delivers a mouseup to the listener while a session is open
MouseUpEndsSession ==
    lastStep' = <<"mouseup">> /\ listening /\ dragState # <<>>

\* the step delivers an Escape keydown to the listener while a session is
\* open
EscapeEndsSession ==
    lastStep' = <<"keydown", "Escape">> /\ listening /\ dragState # <<>>

\* the pointer is where the pointer-down of the open session found it: no
\* pointer-move was handled, or the latest one was at the same coordinate
PointerAtOrigin ==
    moveReport = <<>> \/ Val(moveReport).clientX = Val(dragState).startX

\* after the step the controller is idle
IdleNext ==
    /\ ~isDragging'
    /\ dragState' = <<>>
    /\ previewStart' = <<>> /\ previewEnd' = <<>>
    /\ previewStartRef' = <<>> /\ previewEndRef' = <<>>

\* the end report of a cancelled gesture of the open session, carrying the
\* task's original dates
CancelledReport ==
    LET state == Val(dragState)
    IN <<[taskId |-> state.task.id, newStart |-> state.originalStart,
          newEnd |-> state.originalEnd, cancelled |-> TRUE,
          isResize |-> isResizeMode(state.mode)]>>

\* C11: a pointer-up with the pointer at the coordinate of the
\* pointer-down, after no pointer-move or after pointer-moves that came
\* back to it, reports cancelled = true with the task's original dates,
\* leaves the controller idle and sends the host no date-change event.
C11_NoOpGestureIsCancelled ==
    [][(MouseUpEndsSession /\ PointerAtOrigin) =>
          /\ endReport' = CancelledReport
          /\ IdleNext
          /\ dateChange' = <<>>]_vars

\* C12: an Escape during a session issues the session's one end report,
\* cancelled and with the task's original dates, leaves the controller
\* idle and sends the host no date-change event; a pointer-up or an
\* Escape that arrives when no session is open changes no state and
\* reports nothing.
C12_EscapeCancels ==
    [][/\ EscapeEndsSession =>
             /\ endReport = <<>>
             /\ endReport' = CancelledReport
             /\ IdleNext
             /\ dateChange' = <<>>
       /\ (dragState = <<>>
             /\ lastStep' \in {<<"mouseup">>, <<"keydown", "Escape">>})
            => UNCHANGED appVars]_vars

\* a pointer-up has reached the listener after an Escape that cancelled a
\* session whose preview had left the task's original dates
C12_Witness ==
    /\ lastStep = <<"mouseup">> /\ listening
    /\ dragState = <<>>
    /\ endReport # <<>> /\ Val(endReport).cancelled
    /\ dateChange = <<>>
    /\ moveReport # <<>>
    /\ Val(moveReport).newStart # Val(endReport).newStart

\* the preview of the open session differs from the task's original dates
PreviewChanged ==
    \/ Val(previewStart) # Val(dragState).originalStart
    \/ Val(previewEnd) # Val(dragState).originalEnd

\* the step sends the host a date-change event (the events of a session
\* are forgotten when the next one starts)
DateChangeFires == dateChange = <<>> /\ dateChange' # <<>>

\* C13: the host's date-change event fires in a step exactly when the
\* step is a pointer-up that ends a session whose preview differs from
\* the task's original dates, once, and it carries that preview and
\* isResize = (the mode is a resize); it does not fire at an Escape or at
\* a pointer-up with unchanged dates.
C13_DateChangeOncePerCommit ==
    [][/\ DateChangeFires <=> (MouseUpEndsSession /\ PreviewChanged)
       /\ DateChangeFires =>
             dateChange' = <<[taskId |-> Val(dragState).task.id,
                              newStart |-> Val(previewStart),
                              newEnd |-> Val(previewEnd),
                              isResize |-> isResizeMode(Val(dragState).mode)]>>
       /\ dragState # <<>> => dateChange = <<>>]_vars

\* a resize has been committed by a pointer-up
C13_Witness ==
    /\ lastStep = <<"mouseup">>
    /\ dragState = <<>>
    /\ dateChange # <<>> /\ Val(dateChange).isResize
    /\ moveReport # <<>>
    /\ Val(dateChange).newEnd = Val(moveReport).newEnd
    /\ Val(dateChange).newEnd # tasks[1].end

\* the one task of the chart, as computed
TheTask == computedTasks[1]

\* a pointer-down in the given mode is to be rejected
Rejected(mode) ==
    \/ TheTask.isDisabled
    \/ TheTask.type = "group"
    \/ (mode = "move" /\ ~allowDrag)
    \/ (isResizeMode(mode) /\ ~allowResize)

\* C14: a pointer-down on a disabled task, on a group, in move mode
\* without allowDrag or in a resize mode without allowResize starts no
\* session: it changes no state of the controller and issues no report
\* (the reports stay as they were), and an idle controller stays idle
\* with an empty preview.
C14_RejectedPointerDown ==
    [][\A mode \in DragModes :
          (lastStep' = <<"mousedown", mode>> /\ Rejected(mode)) =>
              /\ UNCHANGED appVars
              /\ dragState = <<>> =>
                    (~isDragging' /\ dragState' = <<>>
                       /\ previewStart' = <<>> /\ previewEnd' = <<>>)]_vars

\* a pointer-down on a resize handle has been rejected because resizing
\* is not allowed, on a chart that allows moving
C14_Witness ==
    /\ lastStep = <<"mousedown", "resize-left">>
    /\ ~allowResize /\ allowDrag
    /\ ~TheTask.isDisabled /\ TheTask.type = "task"
    /\ ~isDragging /\ dragState = <<>> /\ previewStart = <<>>
    /\ startReport = <<>>

\* the instant is 00:00:00.000 of its day
IsDayStart(date) == date = startOfDay(date)

\* the end report of a committed gesture
Committed == endReport # <<>> /\ ~Val(endReport).cancelled

\* the dates of every move report, of every committed end report and of
\* the host's date-change event are day starts
ReportsAreDayStarts ==
    /\ moveReport # <<>> =>
          (IsDayStart(Val(moveReport).newStart)
             /\ IsDayStart(Val(moveReport).newEnd))
    /\ Committed =>
          (IsDayStart(Val(endReport).newStart)
             /\ IsDayStart(Val(endReport).newEnd))
    /\ dateChange # <<>> =>
          (IsDayStart(Val(dateChange).newStart)
             /\ IsDayStart(Val(dateChange).newEnd))

\* C15 as stated: while a session is open the live preview is at the
\* start of a day, and so are the dates of every move report and of every
\* committed pointer-up, whatever the task's original dates.
C15_PreviewIsDayStart ==
    /\ dragState # <<>> =>
          (IsDayStart(Val(previewStart)) /\ IsDayStart(Val(previewEnd)))
    /\ ReportsAreDayStarts

\* C15 amended: from the first pointer-move of a session on, the live
\* preview is at the start of a day, and so are the dates of every move
\* report and of every committed pointer-up; between the pointer-down and
\* the first pointer-move the live preview is the task's original dates
\* as they are.
C15_PreviewIsDayStartAfterMove ==
    /\ dragState # <<>> =>
          IF moveReport # <<>>
          THEN IsDayStart(Val(previewStart)) /\ IsDayStart(Val(previewEnd))
          ELSE /\ Val(previewStart) = Val(dragState).originalStart
               /\ Val(previewEnd) = Val(dragState).originalEnd
    /\ ReportsAreDayStarts

\* a task whose dates are both off a day start is being moved: after a
\* pointer-move its preview is at day starts
C15_Witness ==
    /\ AfterMove
    /\ ~IsDayStart(Val(dragState).originalStart)
    /\ ~IsDayStart(Val(dragState).originalEnd)
    /\ Val(dragState).originalStart < Val(dragState).originalEnd
    /\ IsDayStart(Val(previewStart)) /\ IsDayStart(Val(previewEnd))
    /\ Val(previewStart) < Val(previewEnd)

\* C16: the dates a pointer-up hands to the end report are the ones the
\* latest pointer-move of the session wrote, or the task's original dates
\* when the session had no pointer-move.
C16_EndReportIsLatestPreview ==
    [][MouseUpEndsSession =>
          /\ endReport' # <<>>
          /\ Val(endReport').newStart =
                IF moveReport # <<>> THEN Val(moveReport).newStart
                ELSE Val(dragState).originalStart
          /\ Val(endReport').newEnd =
                IF moveReport # <<>> THEN Val(moveReport).newEnd
                ELSE Val(dragState).originalEnd]_vars

\* a pointer-up has reported the dates of the latest pointer-move, which
\* are not the task's
C16_Witness ==
    /\ lastStep = <<"mouseup">>
    /\ dragState = <<>>
    /\ endReport # <<>> /\ moveReport # <<>>
    /\ Val(endReport).newStart = Val(moveReport).newStart
    /\ Val(endReport).newEnd = Val(moveReport).newEnd
    /\ Val(endReport).newStart # tasks[1].start
    /\ Val(endReport).newEnd # tasks[1].end

\* C22: no step of the controller (pointer-down, pointer-move, pointer-up,
\* key, listener effect) changes a field of a task of the caller's list or
\* the order of the list: the Date objects of the task, which the session
\* holds, keep their instants.
C22_CallerTasksUntouched == [][tasks' = tasks]_vars

\* a left resize whose pointer-move passed the task's own end object, not
\* at the start of a day, to startOfDay: the preview end is normalised and
\* the task's end is not
C22_Witness ==
    /\ AfterMove
    /\ Val(dragState).mode = "resize-left"
    /\ Val(dragState).originalEnd = tasks[1].end
    /\ tasks[1].end # startOfDay(tasks[1].end)
    /\ previewEnd = <<startOfDay(tasks[1].end)>>

\* the displacement of the pointer in the latest pointer-move, in scaled
\* pixels
Displacement ==
    px(Val(moveReport).clientX - Val(dragState).startX, dateRange)

\* C24: snapping goes to the nearest day boundary: moving a bar that
\* starts at the start of a day by less than half a day's width, to the
\* left or to the right, leaves its previewed start where it was, and
\* moving it by more than half a day's width and less than one and a half
\* moves its previewed start by exactly one day in that direction.
C24_SnapsToNearestDay ==
    (/\ AfterMove
     /\ Val(dragState).mode = "move"
     /\ IsDayStart(Val(dragState).originalStart)) =>
        LET d == Displacement
            day == dayWidth(chartWidth)
            origin == Val(dragState).originalStart
        IN /\ 2 * Abs(d) < day => Val(previewStart) = origin
           /\ (day < 2 * Abs(d) /\ 2 * Abs(d) < 3 * day) =>
                 Val(previewStart) = origin + Sgn(d) * MS_PER_DAY

\* C25: a resize moves one edge only: every preview reported during a
\* left resize has the task's original end, and every preview reported
\* during a right resize has the task's original start, whatever the
\* displacement and the original dates.
C25_ResizeKeepsOtherEdge ==
    AfterMove =>
        /\ Val(dragState).mode = "resize-left" =>
              Val(moveReport).newEnd = Val(dragState).originalEnd
        /\ Val(dragState).mode = "resize-right" =>
              Val(moveReport).newStart = Val(dragState).originalStart

\* the controller is idle: no session is open
Idle == ~isDragging /\ dragState = <<>>

\* the step delivers a pointer-move, a pointer-up or a key to the document
DocumentEvent ==
    \/ lastStep' = <<"mousemove">>
    \/ lastStep' = <<"mouseup">>
    \/ \E key \in Keys : lastStep' = <<"keydown", key>>

SessionConsistent ==
    /\ isDragging <=> dragState # <<>>
    /\ dragState # <<>> <=> (previewStart # <<>> /\ previewEnd # <<>>)
    /\ dragState = <<>> <=> (previewStart = <<>> /\ previewEnd = <<>>)
    /\ previewStartRef = previewStart /\ previewEndRef = previewEnd

\* C27: between events the dragging flag is set exactly when the session
\* record exists and exactly when both previews are non-null; after a
\* pointer-up or an Escape that the listener receives the flag is false,
\* the record is gone and the previews are null.
C27_FlagRecordAndPreviewsAgree ==
    /\ []SessionConsistent
    /\ [][(MouseUpEndsSession \/ EscapeEndsSession) => IdleNext]_vars

\* a session that has a preview different from the task's dates, and then
\* none after Escape
C27_Witness ==
    /\ lastStep = <<"keydown", "Escape">>
    /\ Idle /\ SessionConsistent
    /\ moveReport # <<>>
    /\ Val(moveReport).newStart # tasks[1].start
    /\ endReport # <<>> /\ Val(endReport).cancelled

\* the step is a pointer-down that the controller accepts: it calls
\* onDragStart and writes the session record
OnDragStartCalled ==
    \E mode \in DragModes :
        /\ lastStep' = <<"mousedown", mode>>
        /\ ~Rejected(mode)
        /\ startReport' # <<>> /\ dragState' # <<>>

\* the step calls onDragEnd: it is a pointer-up or an Escape that the
\* listener receives while a session is open
OnDragEndCalled == MouseUpEndsSession \/ EscapeEndsSession

\* C28: at most one session is open at a time and every onDragStart is
\* followed by exactly one onDragEnd for its task before the controller is
\* idle again: onDragStart is called only when no session is open (a
\* start during a session would leave the earlier start without its end),
\* onDragEnd is called only for the task of the open session and ends it,
\* and a session ends in no other way.
C28_StartsAndEndsPaired ==
    [][/\ OnDragStartCalled => Idle
       /\ OnDragEndCalled =>
             /\ endReport' # <<>>
             /\ Val(endReport').taskId = Val(dragState).task.id
             /\ IdleNext
       /\ (dragState # <<>> /\ dragState' = <<>>) => OnDragEndCalled]_vars

--------------------------------------------------------------------------
(* Properties of snapping, under SpecSnap *)

Snaps == 1..Len(conv.snaps)

\* the start of the day that contains the instant at position x: the day
\* start whose position is at or before x and whose next day start's
\* position is after x
DayStartAt(x) ==
    CHOOSE d \in { Days(n) : n \in (0 - MaxSnapDays - 1)
                                     ..(MaxConvInstant + MaxSnapDays + 1) } :
        /\ dateToX(d, conv.range, conv.width) <= x
        /\ x < dateToX(d + MS_PER_DAY, conv.range, conv.width)

--------------------------------------------------------------------------
(* Properties of the grid, under SpecGrid *)

\* the grid has been rendered
GridDates == Val(conv.gridDates)

\* C30: in day, week and month view, for the range derived from the
\* tasks, the column of index i is drawn where its date is: i * columnWidth
\* is dateToX of the i-th date of generateDateGrid, up to the share of the
\* one tick by which the range ends before midnight (i * columnWidth /
\* totalMs pixels, far below one pixel for millisecond ticks), and the
\* columns together are as wide as the chart, so that a bar that starts on
\* a column's date has its left edge on the column's left boundary.
C30_ColumnsAtTheirDates ==
    conv.gridDates # <<>> =>
        /\ Len(GridDates) * getColumnWidth(viewMode) = chartWidth
        /\ \A k \in 1..Len(GridDates) :
              LET dev == dateToX(GridDates[k], dateRange, chartWidth)
                           - columnX(k - 1, viewMode, dateRange)
              IN 0 <= dev /\ dev <= (k - 1) * getColumnWidth(viewMode)

\* in day view the columns are at their dates
DayColumnsAtTheirDates ==
    (conv.gridDates # <<>> /\ viewMode = "day") => C30_ColumnsAtTheirDates

--------------------------------------------------------------------------
(* Properties of the coordinate engine, under SpecCoord *)

\* the positions k of a chain from which a round trip has been made
RoundTrips == {k \in 1..Len(conv.trail) : k + 2 <= Len(conv.trail)}

==========================================================================
